---- MODULE Spec2Model ----
(***************************************************************************)
(* Hospital-Management-System: the relational store (models.py) and the    *)
(* request handlers (app.py) that register users, declare doctor           *)
(* availability, book appointments and answer the open-slots query.        *)
(*                                                                         *)
(* Text values that the code only compares for equality (user names,       *)
(* times, roles, flash messages) are TLA+ strings.  Date strings are       *)
(* compared with < by the handlers, so they are sequences of character     *)
(* codes and < is Python's lexicographic order on them.                    *)
(*                                                                         *)
(* A table whose rows are never referred to by id (doctor_availability,    *)
(* appointments) is the bag of its rows without the id column: two rows    *)
(* that agree on every other column are two copies.  users keeps its id,   *)
(* which the other tables and the session refer to.                        *)
(***************************************************************************)
EXTENDS Integers, Sequences, FiniteSets, Bags, TLC

\* ------------------------------------------------------------------ bounds
\* Rows the model lets doctor_availability and appointments grow to.
MaxSlots == 2
MaxAppointments == 2

\* Browsers (one Flask session cookie each) that send requests concurrently.
Clients == {"c1", "c2"}

\* ------------------------------------------------------- character strings
Space == 32
Dash == 45
Zero == 48

Digit(n) == Zero + n

IsDigit(ch) == ch >= Zero /\ ch <= Zero + 9

DigitVal(ch) == ch - Zero

Min(a, b) == IF a < b THEN a ELSE b

\* Python's str.__lt__: the first differing character decides, a proper
\* prefix is smaller.
StrLess(a, b) ==
    \E i \in 1..(Min(Len(a), Len(b)) + 1) :
        /\ \A j \in 1..(i - 1) : a[j] = b[j]
        /\ \/ i > Len(a) /\ i <= Len(b)
           \/ i <= Len(a) /\ i <= Len(b) /\ a[i] < b[i]

\* ------------------------------------------------------------ calendar days
\* A calendar day (datetime.date) is <<year, month, day>>.
IsLeap(y) == (y % 4 = 0 /\ y % 100 # 0) \/ y % 400 = 0

DaysInMonth(y, m) ==
    IF m = 2 THEN (IF IsLeap(y) THEN 29 ELSE 28)
    ELSE IF m \in {4, 6, 9, 11} THEN 30 ELSE 31

\* datetime.date.__lt__
DayBefore(a, b) ==
    \/ a[1] < b[1]
    \/ a[1] = b[1] /\ a[2] < b[2]
    \/ a[1] = b[1] /\ a[2] = b[2] /\ a[3] < b[3]

\* date.strftime('%Y-%m-%d'): four, two and two digits, zero padded.
strftime(day) ==
    << Digit(day[1] \div 1000), Digit((day[1] \div 100) % 10),
       Digit((day[1] \div 10) % 10), Digit(day[1] % 10), Dash,
       Digit(day[2] \div 10), Digit(day[2] % 10), Dash,
       Digit(day[3] \div 10), Digit(day[3] % 10) >>

ValueError == << >>

\* The %m field of strptime: 1[0-2] | 0[1-9] | [1-9].  0 when no match.
MonthField(f) ==
    IF Len(f) = 1 /\ IsDigit(f[1]) /\ DigitVal(f[1]) >= 1 THEN DigitVal(f[1])
    ELSE IF Len(f) = 2 /\ IsDigit(f[1]) /\ IsDigit(f[2])
            /\ 10 * DigitVal(f[1]) + DigitVal(f[2]) \in 1..12
         THEN 10 * DigitVal(f[1]) + DigitVal(f[2])
         ELSE 0

\* The %d field of strptime: 3[01] | [12]\d | 0[1-9] | [1-9] | ' '[1-9].
DayField(f) ==
    IF Len(f) = 1 /\ IsDigit(f[1]) /\ DigitVal(f[1]) >= 1 THEN DigitVal(f[1])
    ELSE IF Len(f) = 2 /\ f[1] = Space /\ IsDigit(f[2]) /\ DigitVal(f[2]) >= 1
         THEN DigitVal(f[2])
    ELSE IF Len(f) = 2 /\ IsDigit(f[1]) /\ IsDigit(f[2])
            /\ 10 * DigitVal(f[1]) + DigitVal(f[2]) \in 1..31
         THEN 10 * DigitVal(f[1]) + DigitVal(f[2])
         ELSE 0

\* datetime.strptime(s, '%Y-%m-%d').date(): the day <<y, m, d>>, or
\* ValueError when s does not match \d{4}-%m-%d or the day is out of range
\* for the month.
strptime(s) ==
    IF /\ Len(s) \in 8..10
       /\ \A i \in 1..4 : IsDigit(s[i])
       /\ s[5] = Dash
       /\ \E p \in 7..8 : p < Len(s) /\ s[p] = Dash
                          /\ \A q \in 6..(p - 1) : s[q] # Dash
    THEN LET p == CHOOSE q \in 7..8 :
                      q < Len(s) /\ s[q] = Dash /\ \A r \in 6..(q - 1) : s[r] # Dash
             y == 1000 * DigitVal(s[1]) + 100 * DigitVal(s[2])
                    + 10 * DigitVal(s[3]) + DigitVal(s[4])
             m == MonthField(SubSeq(s, 6, p - 1))
             d == DayField(SubSeq(s, p + 1, Len(s)))
         IN IF m # 0 /\ d # 0 /\ d <= DaysInMonth(y, m)
            THEN <<y, m, d>> ELSE ValueError
    ELSE ValueError

\* ------------------------------------------------------------------ inputs
\* Calendar days the submitted date strings are built from.
Days == { <<2026, 11, 2>>, <<2026, 11, 12>> }

\* What date.today() returns while the requests are served.
Todays == { <<2026, 11, 12>> }

\* A day written without zero padding, as a client may type it.
Unpadded(day) ==
    LET num(n) == IF n < 10 THEN << Digit(n) >>
                  ELSE << Digit(n \div 10), Digit(n % 10) >>
    IN SubSeq(strftime(day), 1, 5) \o num(day[2]) \o << Dash >> \o num(day[3])

\* A string of the right shape that names no month: "2026-13-01".
NotADate == << Digit(2), Digit(0), Digit(2), Digit(6), Dash, Digit(1), Digit(3),
               Dash, Digit(0), Digit(1) >>

\* "" (the field is missing; the handlers treat every missing field alike, so
\* the date stands for all of them), NotADate, and every day padded and unpadded.
DateInputs ==
    { << >>, NotADate } \cup { strftime(d) : d \in Days } \cup { Unpadded(d) : d \in Days }

TimeInputs == { "09:00", "10:00" }

EndTimeInputs == { "09:30", "10:30" }

\* The (start_time, end_time) pairs a doctor submits: the interval is not
\* empty.  (Times are 'HH:MM' text, which the handler never compares.)
SlotInputs == { << "09:00", "09:30" >>, << "09:00", "10:30" >>, << "10:00", "10:30" >> }

ADMIN_USERNAME == "admin"

ADMIN_PASSWORD == "adminpassword"

Usernames == { ADMIN_USERNAME, "drho", "ann" }

\* The same and one more, for when the three are taken.
MoreUsernames == Usernames \cup { "bob" }

NewPasswords == { "pw" }

Passwords == NewPasswords \cup { ADMIN_PASSWORD }

\* The users.id values a form or URL may name as doctor_id.
DoctorIdInputs == 2..3

\* ------------------------------------------------------------------- state
VARIABLES
    users,                \* table users: rows [id, username, password_hash, role, name, contact_info, is_active]
    doctors,              \* table doctors: rows [user_id, specialization_id]
    doctor_availability,  \* table doctor_availability: bag of [doctor_id, date, start_time, end_time]
    appointments,         \* table appointments: bag of [patient_id, doctor_id, date, time, status]
    sqlite_sequence,      \* AUTOINCREMENT of users: the largest id handed out
    session,              \* per client, the Flask session: [user_id, role]
    pc,                   \* per client, where its request is: "idle", "view", "profile"
    g_user,               \* per client, g.user as loaded by before_request
    doctor_user_id,       \* per client, manage_doctors' local between its two inserts
    today,                \* date.today()
    response,             \* what the step just taken answered: [status, body]
    booked                \* history: bag of the <<doctor, date, time>> whose booking reported success

vars == << users, doctors, doctor_availability, appointments, sqlite_sequence,
           session, pc, g_user, doctor_user_id, today, response, booked >>

\* Python's None for an integer id, and for a row.
None == 0

NoRow == [ id |-> None, username |-> "", password_hash |-> << >>, role |-> "",
           name |-> "", contact_info |-> "", is_active |-> 1 ]

EmptySession == [ user_id |-> None, role |-> "" ]

Respond(status, body) == [ status |-> status, body |-> body ]

NoResponse == Respond("", << >>)

\* -------------------------------------------------------------- models.py
\* hashlib.sha256(password.encode()).hexdigest(): injective on the passwords.
hash_password(password) == << "sha256", password >>

\* As create_user, with INSERT OR REPLACE: the row that holds the username
\* gives way to the new one, which gets a new id.
create_user_replace(username, password, name, contact_info, role) ==
    LET id == sqlite_sequence + 1
    IN [ user_id |-> id,
         users |-> { u \in users : u.username # username } \cup
             { [ id |-> id, username |-> username,
                 password_hash |-> hash_password(password), role |-> role,
                 name |-> name, contact_info |-> contact_info, is_active |-> 1 ] },
         seq |-> id ]

\* INSERT INTO users ...: UNIQUE(username) raises IntegrityError, which is
\* turned into None; otherwise the row gets the next AUTOINCREMENT id.
create_user(username, password, name, contact_info, role) ==
    IF \E u \in users : u.username = username
    THEN [ user_id |-> None, users |-> users, seq |-> sqlite_sequence ]
    ELSE LET id == sqlite_sequence + 1
         IN [ user_id |-> id,
              users |-> users \cup
                  { [ id |-> id, username |-> username,
                      password_hash |-> hash_password(password), role |-> role,
                      name |-> name, contact_info |-> contact_info, is_active |-> 1 ] },
              seq |-> id ]

\* As add_doctor_profile, without conn.commit(): the row is lost when the
\* connection closes, and the call still returns True.
add_doctor_profile_no_commit(user_id, specialization_id) ==
    [ ok |-> TRUE, doctors |-> doctors ]

\* INSERT INTO doctors ...: user_id is the PRIMARY KEY.
add_doctor_profile(user_id, specialization_id) ==
    IF \E d \in doctors : d.user_id = user_id
    THEN [ ok |-> FALSE, doctors |-> doctors ]
    ELSE [ ok |-> TRUE,
           doctors |-> doctors \cup
               { [ user_id |-> user_id, specialization_id |-> specialization_id ] } ]

\* One more copy of row in a table.
Insert(table, row) == table (+) SetToBag({ row })

\* SELECT ... WHERE: the rows (with their copies) that satisfy Cond.
Where(table, Cond(_)) ==
    [ r \in { x \in BagToSet(table) : Cond(x) } |-> CopiesIn(r, table) ]

\* fetchall(): the selected rows as a list, one entry per copy.
RECURSIVE fetchall(_)
fetchall(rows) ==
    IF BagToSet(rows) = {} THEN << >>
    ELSE LET first == CHOOSE r \in BagToSet(rows) : TRUE
         IN << first >> \o fetchall(rows (-) SetToBag({ first }))

Range(seq) == { seq[i] : i \in 1..Len(seq) }

\* As set_doctor_availability, with INSERT OR REPLACE: the slot that holds the
\* key is replaced, end_time included, and the call reports success.
set_doctor_availability_replace(doctor_id, date, start_time, end_time) ==
    LET other(s) ==
            ~(s.doctor_id = doctor_id /\ s.date = date /\ s.start_time = start_time)
    IN [ ok |-> TRUE,
         rows |-> Insert(Where(doctor_availability, other),
                         [ doctor_id |-> doctor_id, date |-> date,
                           start_time |-> start_time, end_time |-> end_time ]) ]

\* As set_doctor_availability, but a new slot first clears the doctor's
\* other slots of that date (DELETE ... WHERE doctor_id = ? AND date = ?).
set_doctor_availability_per_day(doctor_id, date, start_time, end_time) ==
    LET other_day(s) == ~(s.doctor_id = doctor_id /\ s.date = date)
    IN IF \E s \in BagToSet(doctor_availability) :
              s.doctor_id = doctor_id /\ s.date = date /\ s.start_time = start_time
       THEN [ ok |-> FALSE, rows |-> doctor_availability ]
       ELSE [ ok |-> TRUE,
              rows |-> Insert(Where(doctor_availability, other_day),
                              [ doctor_id |-> doctor_id, date |-> date,
                                start_time |-> start_time, end_time |-> end_time ]) ]

\* INSERT INTO doctor_availability ...: UNIQUE(doctor_id, date, start_time).
set_doctor_availability(doctor_id, date, start_time, end_time) ==
    IF \E s \in BagToSet(doctor_availability) :
           s.doctor_id = doctor_id /\ s.date = date /\ s.start_time = start_time
    THEN [ ok |-> FALSE, rows |-> doctor_availability ]
    ELSE [ ok |-> TRUE,
           rows |-> Insert(doctor_availability,
                           [ doctor_id |-> doctor_id, date |-> date,
                             start_time |-> start_time, end_time |-> end_time ]) ]

\* As get_doctor_availability_by_date, but the booked times are those of the
\* doctor on any date (the date is missing from the second WHERE).
get_doctor_availability_by_date_any_date(doctor_id, date_str) ==
    LET of_doctor_on_date(s) == s.doctor_id = doctor_id /\ s.date = date_str
        booked_of_doctor(a) == a.doctor_id = doctor_id /\ a.status = "Booked"
        available_slots == fetchall(Where(doctor_availability, of_doctor_on_date))
        booked_rows == fetchall(Where(appointments, booked_of_doctor))
        booked_times == { booked_rows[i].time : i \in 1..Len(booked_rows) }
        open(slot) == slot.start_time \notin booked_times
        kept == SelectSeq(available_slots, open)
    IN [ i \in 1..Len(kept) |-> kept[i].start_time ]

\* As get_doctor_availability_by_date, but step 3 (the filter) is left out.
get_doctor_availability_by_date_unfiltered(doctor_id, date_str) ==
    LET of_doctor_on_date(s) == s.doctor_id = doctor_id /\ s.date = date_str
        available_slots == fetchall(Where(doctor_availability, of_doctor_on_date))
    IN [ i \in 1..Len(available_slots) |-> available_slots[i].start_time ]

\* The open slots of a doctor on a date: the start_time of each availability
\* row of (doctor, date) that is not the time of a 'Booked' appointment of
\* (doctor, date).
get_doctor_availability_by_date(doctor_id, date_str) ==
    LET of_doctor_on_date(s) == s.doctor_id = doctor_id /\ s.date = date_str
        booked_on_date(a) ==
            a.doctor_id = doctor_id /\ a.date = date_str /\ a.status = "Booked"
        available_slots == fetchall(Where(doctor_availability, of_doctor_on_date))
        booked_rows == fetchall(Where(appointments, booked_on_date))
        booked_times == { booked_rows[i].time : i \in 1..Len(booked_rows) }
        open(slot) == slot.start_time \notin booked_times
        kept == SelectSeq(available_slots, open)
    IN [ i \in 1..Len(kept) |-> kept[i].start_time ]

\* As create_appointment, with INSERT OR REPLACE: the row that holds the key
\* gives way to the new one and the call reports success.
create_appointment_replace(patient_id, doctor_id, date_str, time) ==
    LET other(a) == ~(a.doctor_id = doctor_id /\ a.date = date_str /\ a.time = time)
    IN [ ok |-> TRUE,
         rows |-> Insert(Where(appointments, other),
                         [ patient_id |-> patient_id, doctor_id |-> doctor_id,
                           date |-> date_str, time |-> time, status |-> "Booked" ]) ]

\* As create_appointment, on a table without the UNIQUE constraint.
create_appointment_no_unique(patient_id, doctor_id, date_str, time) ==
    [ ok |-> TRUE,
      rows |-> Insert(appointments,
                      [ patient_id |-> patient_id, doctor_id |-> doctor_id,
                        date |-> date_str, time |-> time, status |-> "Booked" ]) ]

\* INSERT INTO appointments ... 'Booked': UNIQUE(doctor_id, date, time).
create_appointment(patient_id, doctor_id, date_str, time) ==
    IF \E a \in BagToSet(appointments) :
           a.doctor_id = doctor_id /\ a.date = date_str /\ a.time = time
    THEN [ ok |-> FALSE, rows |-> appointments ]
    ELSE [ ok |-> TRUE,
           rows |-> Insert(appointments,
                           [ patient_id |-> patient_id, doctor_id |-> doctor_id,
                             date |-> date_str, time |-> time, status |-> "Booked" ]) ]

\* The Admin row that add_admin() inserts.
AdminRow ==
    [ id |-> 1, username |-> ADMIN_USERNAME,
      password_hash |-> hash_password(ADMIN_PASSWORD), role |-> "Admin",
      name |-> "System Administrator", contact_info |-> "", is_active |-> 1 ]

\* init_db() on an empty file, then add_admin(): the tables are empty but for
\* the Admin user; no browser has a session yet.
Init ==
    /\ users = { AdminRow }
    /\ doctors = {}
    /\ doctor_availability = EmptyBag
    /\ appointments = EmptyBag
    /\ sqlite_sequence = 1
    /\ session = [ c \in Clients |-> EmptySession ]
    /\ pc = [ c \in Clients |-> "idle" ]
    /\ g_user = [ c \in Clients |-> NoRow ]
    /\ doctor_user_id = [ c \in Clients |-> None ]
    /\ today \in Todays
    /\ response = NoResponse
    /\ booked = EmptyBag

\* ------------------------------------------------------------------ app.py
\* The flash messages the properties below refer to (shortened).
FlashBooked == "Appointment booked successfully!"

FlashBookingFailed == "Booking failed."

FlashPastBooking == "Appointments must be booked for today or a future date."

FlashSlotSet == "Availability set."

FlashSlotExists == "Error: That exact slot is already set."

FlashPastSlot == "You cannot set availability for a past date."

FlashRegistered == "Registration successful!"

FlashRegisterFailed == "Registration failed."

FlashDoctorAdded == "Doctor added successfully!"

\* @app.before_request: g.user is the users row of session['user_id'], or
\* None when the session has none or the row no longer exists.
load_logged_in_user(c) ==
    /\ pc[c] = "idle"
    /\ g_user' = [ g_user EXCEPT ![c] =
                     IF session[c].user_id = None THEN NoRow
                     ELSE IF \E u \in users : u.id = session[c].user_id
                          THEN CHOOSE u \in users : u.id = session[c].user_id
                          ELSE NoRow ]
    /\ pc' = [ pc EXCEPT ![c] = "view" ]
    /\ response' = NoResponse
    /\ UNCHANGED << users, doctors, doctor_availability, appointments, sqlite_sequence,
                    session, doctor_user_id, today, booked >>

\* As login_required, without the role test: any logged-in user passes.
login_required_any_role(c, role) ==
    IF g_user[c] = NoRow THEN "Please log in to access this page." ELSE ""

\* The decorator: "" lets the view run, otherwise the flash of the redirect.
login_required(c, role) ==
    IF g_user[c] = NoRow THEN "Please log in to access this page."
    ELSE IF role # "" /\ g_user[c].role # role THEN "Access denied."
    ELSE ""

\* The view has returned: the request of client c is over.
Done(c) == pc' = [ pc EXCEPT ![c] = "idle" ]

\* POST /login
login(c) ==
    /\ pc[c] = "view"
    /\ \E username \in Usernames, password \in Passwords :
         LET found == { u \in users : u.username = username }
             user  == IF found = {} THEN NoRow ELSE CHOOSE u \in found : TRUE
             error == IF user = NoRow THEN "Incorrect username."
                      ELSE IF user.password_hash # hash_password(password)
                           THEN "Incorrect password."
                           ELSE ""
         IN IF error = ""
            THEN /\ session' = [ session EXCEPT ![c] =
                                   [ user_id |-> user.id, role |-> user.role ] ]
                 /\ response' = Respond("Welcome", << >>)
            ELSE /\ session' = session
                 /\ response' = Respond(error, << >>)
    /\ Done(c)
    /\ UNCHANGED << users, doctors, doctor_availability, appointments, sqlite_sequence,
                    g_user, doctor_user_id, today, booked >>

\* As register, but the role is read from the form
\* (request.form.get('role', 'Patient')) and handed to create_user.
register_form_role(c, username, password, confirm_password, name, contact_info) ==
    /\ pc[c] = "view"
    /\ IF "" \in { username, password, confirm_password, name, contact_info }
       THEN /\ response' = Respond("All fields are required.", << >>)
            /\ UNCHANGED << users, sqlite_sequence, session >>
       ELSE IF password # confirm_password
       THEN /\ response' = Respond("Passwords do not match.", << >>)
            /\ UNCHANGED << users, sqlite_sequence, session >>
       ELSE \E role \in { "Patient", "Doctor", "Admin" } :
            LET r == create_user(username, password, name, contact_info, role)
            IN /\ users' = r.users
               /\ sqlite_sequence' = r.seq
               /\ IF r.user_id # None
                  THEN /\ session' = [ session EXCEPT ![c] =
                                         [ user_id |-> r.user_id, role |-> "Patient" ] ]
                       /\ response' = Respond(FlashRegistered, << >>)
                  ELSE /\ session' = session
                       /\ response' = Respond(FlashRegisterFailed, << >>)
    /\ Done(c)
    /\ UNCHANGED << doctors, doctor_availability, appointments, g_user,
                    doctor_user_id, today, booked >>

\* POST /register: the role is create_user's default, 'Patient'.
register(c, username, password, confirm_password, name, contact_info) ==
    /\ pc[c] = "view"
    /\ IF "" \in { username, password, confirm_password, name, contact_info }
       THEN /\ response' = Respond("All fields are required.", << >>)
            /\ UNCHANGED << users, sqlite_sequence, session >>
       ELSE IF password # confirm_password
       THEN /\ response' = Respond("Passwords do not match.", << >>)
            /\ UNCHANGED << users, sqlite_sequence, session >>
       ELSE LET r == create_user(username, password, name, contact_info, "Patient")
            IN /\ users' = r.users
               /\ sqlite_sequence' = r.seq
               /\ IF r.user_id # None
                  THEN /\ session' = [ session EXCEPT ![c] =
                                         [ user_id |-> r.user_id, role |-> "Patient" ] ]
                       /\ response' = Respond(FlashRegistered, << >>)
                  ELSE /\ session' = session
                       /\ response' = Respond(FlashRegisterFailed, << >>)
    /\ Done(c)
    /\ UNCHANGED << doctors, doctor_availability, appointments, g_user,
                    doctor_user_id, today, booked >>

register_post(c) ==
    \E username \in Usernames \cup { "" }, password \in NewPasswords \cup { "" },
       confirm_password \in Passwords, name \in { "", "Ann" },
       contact_info \in { "", "555" } :
        register(c, username, password, confirm_password, name, contact_info)

\* GET /logout
logout(c) ==
    /\ pc[c] = "view"
    /\ session' = [ session EXCEPT ![c] = EmptySession ]
    /\ response' = Respond("You have been logged out.", << >>)
    /\ Done(c)
    /\ UNCHANGED << users, doctors, doctor_availability, appointments, sqlite_sequence,
                    g_user, doctor_user_id, today, booked >>

\* The past-date test of both POST handlers: the submitted string against
\* today's '%Y-%m-%d' string, as strings.
IsPastDate(date_str) == StrLess(date_str, strftime(today))

\* POST /doctor/availability
doctor_availability_view(c, date_str, start_time, end_time) ==
    /\ pc[c] = "view"
    /\ IF login_required(c, "Doctor") # ""
       THEN /\ response' = Respond(login_required(c, "Doctor"), << >>)
            /\ UNCHANGED doctor_availability
       ELSE IF date_str = << >> \/ start_time = "" \/ end_time = ""
       THEN /\ response' = Respond("All date and time fields are required.", << >>)
            /\ UNCHANGED doctor_availability
       ELSE IF strptime(date_str) = ValueError
       THEN /\ response' = Respond("Invalid date format. Use YYYY-MM-DD.", << >>)
            /\ UNCHANGED doctor_availability
       ELSE IF IsPastDate(date_str)
       THEN /\ response' = Respond(FlashPastSlot, << >>)
            /\ UNCHANGED doctor_availability
       ELSE LET r == set_doctor_availability(g_user[c].id, date_str, start_time, end_time)
            IN /\ r.ok => BagCardinality(doctor_availability) < MaxSlots
               /\ doctor_availability' = r.rows
               /\ response' = Respond(IF r.ok THEN FlashSlotSet ELSE FlashSlotExists,
                                      << >>)
    /\ Done(c)
    /\ UNCHANGED << users, doctors, appointments, sqlite_sequence, session, g_user,
                    doctor_user_id, today, booked >>

doctor_availability_post(c) ==
    \E date_str \in DateInputs, slot \in SlotInputs :
        doctor_availability_view(c, date_str, slot[1], slot[2])

\* POST /patient/book
patient_book_appointment(c, doctor_id, date_str, time) ==
    /\ pc[c] = "view"
    /\ IF login_required(c, "Patient") # ""
       THEN /\ response' = Respond(login_required(c, "Patient"), << >>)
            /\ UNCHANGED << appointments, booked >>
       ELSE IF doctor_id = None \/ date_str = << >> \/ time = ""
       THEN /\ response' = Respond("Missing required booking information.", << >>)
            /\ UNCHANGED << appointments, booked >>
       ELSE IF IsPastDate(date_str)
       THEN /\ response' = Respond(FlashPastBooking, << >>)
            /\ UNCHANGED << appointments, booked >>
       ELSE LET r == create_appointment(g_user[c].id, doctor_id, date_str, time)
            IN /\ r.ok => BagCardinality(appointments) < MaxAppointments
               /\ appointments' = r.rows
               /\ IF r.ok
                  THEN /\ response' = Respond(FlashBooked, << >>)
                       /\ booked' = Insert(booked, << doctor_id, date_str, time >>)
                  ELSE /\ response' = Respond(FlashBookingFailed, << >>)
                       /\ booked' = booked
    /\ Done(c)
    /\ UNCHANGED << users, doctors, doctor_availability, sqlite_sequence, session,
                    g_user, doctor_user_id, today >>

patient_book_appointment_post(c) ==
    \E doctor_id \in DoctorIdInputs, date_str \in DateInputs,
       time \in TimeInputs :
        patient_book_appointment(c, doctor_id, date_str, time)

\* GET /api/doctor/<int:doctor_id>/availability/<string:date_str>
api_get_availability(c, doctor_id, date_str) ==
    /\ pc[c] = "view"
    /\ IF login_required(c, "Patient") # ""
       THEN response' = Respond(login_required(c, "Patient"), << >>)
       ELSE IF strptime(date_str) = ValueError
       THEN response' = Respond("Invalid date format", << >>)
       ELSE IF DayBefore(strptime(date_str), today)
       THEN response' = Respond("slots", << >>)
       ELSE response' = Respond("slots",
                                get_doctor_availability_by_date(doctor_id, date_str))
    /\ Done(c)
    /\ UNCHANGED << users, doctors, doctor_availability, appointments, sqlite_sequence,
                    session, g_user, doctor_user_id, today, booked >>

api_get_availability_get(c) ==
    \E doctor_id \in DoctorIdInputs, date_str \in DateInputs \ { << >> } :
        api_get_availability(c, doctor_id, date_str)

\* POST /admin/doctors, up to and including create_user(..., role='Doctor').
manage_doctors(c, usernames) ==
    /\ pc[c] = "view"
    /\ \E username \in usernames \cup { "" }, password \in NewPasswords,
          name \in { "Dr Ho" }, contact_info \in { "" } :
         IF login_required(c, "Admin") # ""
         THEN /\ response' = Respond(login_required(c, "Admin"), << >>)
              /\ Done(c)
              /\ UNCHANGED << users, sqlite_sequence, doctor_user_id >>
         ELSE IF username = ""
         THEN /\ response' = Respond("All doctor fields are required.", << >>)
              /\ Done(c)
              /\ UNCHANGED << users, sqlite_sequence, doctor_user_id >>
         ELSE LET r == create_user(username, password, name, contact_info, "Doctor")
              IN /\ users' = r.users
                 /\ sqlite_sequence' = r.seq
                 /\ IF r.user_id # None
                    THEN /\ doctor_user_id' = [ doctor_user_id EXCEPT ![c] = r.user_id ]
                         /\ pc' = [ pc EXCEPT ![c] = "profile" ]
                         /\ response' = NoResponse
                    ELSE /\ doctor_user_id' = doctor_user_id
                         /\ Done(c)
                         /\ response' = Respond("Error: Username already exists or data is invalid.", << >>)
    /\ UNCHANGED << doctors, doctor_availability, appointments, session, g_user,
                    today, booked >>

\* POST /admin/doctors, continued: add_doctor_profile, and the DELETE of the
\* user row when it fails.
manage_doctors_profile(c) ==
    /\ pc[c] = "profile"
    /\ \E specialization_id \in 1..3 :
         LET r == add_doctor_profile(doctor_user_id[c], specialization_id)
         IN /\ doctors' = r.doctors
            /\ IF r.ok
               THEN /\ users' = users
                    /\ response' = Respond(FlashDoctorAdded, << >>)
               ELSE /\ users' = { u \in users : u.id # doctor_user_id[c] }
                    /\ response' = Respond("Failed to create doctor profile.", << >>)
    /\ doctor_user_id' = [ doctor_user_id EXCEPT ![c] = None ]
    /\ Done(c)
    /\ UNCHANGED << doctor_availability, appointments, sqlite_sequence, session,
                    g_user, today, booked >>

\* ---------------------------------------------------------- specifications
\* Accounts: every handler that writes users, doctors or a session, from the
\* freshly initialised database.
Next ==
    \E c \in Clients :
        \/ load_logged_in_user(c)
        \/ login(c)
        \/ register_post(c)
        \/ logout(c)
        \/ manage_doctors(c, Usernames)
        \/ manage_doctors_profile(c)

Spec == Init /\ [][Next]_vars

\* The accounts that exist once the admin has added doctor "drho" and patient
\* "ann" has registered, in that order.
DoctorRow ==
    [ id |-> 2, username |-> "drho", password_hash |-> hash_password("pw"),
      role |-> "Doctor", name |-> "Dr Ho", contact_info |-> "", is_active |-> 1 ]

PatientRow ==
    [ id |-> 3, username |-> "ann", password_hash |-> hash_password("pw"),
      role |-> "Patient", name |-> "Ann", contact_info |-> "555", is_active |-> 1 ]

SessionOf(u) == [ user_id |-> u.id, role |-> u.role ]

\* The sessions a browser can be in: logged out, or logged in as one of the
\* three users.
StartSessions ==
    << EmptySession, SessionOf(AdminRow), SessionOf(DoctorRow), SessionOf(PatientRow) >>

\* Scheduling starts from those accounts, with no slot or appointment yet and
\* the two browsers in any two sessions (which browser is which does not
\* matter, so "c1" takes the earlier of the two in StartSessions).
InitScheduling ==
    /\ users = { AdminRow, DoctorRow, PatientRow }
    /\ doctors = { [ user_id |-> 2, specialization_id |-> 1 ] }
    /\ doctor_availability = EmptyBag
    /\ appointments = EmptyBag
    /\ sqlite_sequence = 3
    /\ \E i, j \in 1..Len(StartSessions) :
         /\ i <= j
         /\ session = [ c \in Clients |-> IF c = "c1" THEN StartSessions[i]
                                         ELSE StartSessions[j] ]
    /\ pc = [ c \in Clients |-> "idle" ]
    /\ g_user = [ c \in Clients |-> NoRow ]
    /\ doctor_user_id = [ c \in Clients |-> None ]
    /\ today \in Todays
    /\ response = NoResponse
    /\ booked = EmptyBag

\* Scheduling: every handler that reads or writes doctor_availability or
\* appointments, and the admin's two-step doctor creation beside them.
NextScheduling ==
    \E c \in Clients :
        \/ load_logged_in_user(c)
        \/ doctor_availability_post(c)
        \/ patient_book_appointment_post(c)
        \/ api_get_availability_get(c)
        \/ manage_doctors(c, MoreUsernames)
        \/ manage_doctors_profile(c)

SpecScheduling == InitScheduling /\ [][NextScheduling]_vars

\* The state SpecScheduling starts from is one Spec reaches.
SchedulingStart ==
    /\ users = { AdminRow, DoctorRow, PatientRow }
    /\ doctors = { [ user_id |-> 2, specialization_id |-> 1 ] }
    /\ \E c, d \in Clients :
         c # d /\ session[c] = SessionOf(DoctorRow) /\ session[d] = SessionOf(PatientRow)
    /\ \A c \in Clients : pc[c] = "idle"

\* ----------------------------------------------------- the days going by
\* date.today() of the day after.
NextDay(day) ==
    IF day[3] < DaysInMonth(day[1], day[2]) THEN << day[1], day[2], day[3] + 1 >>
    ELSE IF day[2] < 12 THEN << day[1], day[2] + 1, 1 >>
    ELSE << day[1] + 1, 1, 1 >>

\* The days the server is up in the scenario below.
FirstDay == << 2026, 10, 31 >>

LastDay == << 2026, 11, 2 >>

\* A day written with a blank for the tens of a one-digit day ('%e' style,
\* which strptime's %d accepts): "2026-11- 5".
SpacePadded(day) ==
    SubSeq(strftime(day), 1, 8) \o
        (IF day[3] < 10 THEN << Space, Digit(day[3]) >>
         ELSE << Digit(day[3] \div 10), Digit(day[3] % 10) >>)

\* The dates submitted in the scenario: 5 November 2026, zero padded and
\* blank padded.
CalendarDateInputs == { strftime(<< 2026, 11, 5 >>), SpacePadded(<< 2026, 11, 5 >>) }

\* Midnight: date.today() moves on while no request is being served.
midnight ==
    /\ DayBefore(today, LastDay)
    /\ \A c \in Clients : pc[c] = "idle"
    /\ today' = NextDay(today)
    /\ response' = NoResponse
    /\ UNCHANGED << users, doctors, doctor_availability, appointments, sqlite_sequence,
                    session, pc, g_user, doctor_user_id, booked >>

\* The server is started on FirstDay with the accounts of InitScheduling; the
\* doctor is logged in in one browser, the patient in the other.
InitCalendar ==
    /\ users = { AdminRow, DoctorRow, PatientRow }
    /\ doctors = { [ user_id |-> 2, specialization_id |-> 1 ] }
    /\ doctor_availability = EmptyBag
    /\ appointments = EmptyBag
    /\ sqlite_sequence = 3
    /\ session = [ c \in Clients |-> IF c = "c1" THEN SessionOf(DoctorRow)
                                    ELSE SessionOf(PatientRow) ]
    /\ pc = [ c \in Clients |-> "idle" ]
    /\ g_user = [ c \in Clients |-> NoRow ]
    /\ doctor_user_id = [ c \in Clients |-> None ]
    /\ today = FirstDay
    /\ response = NoResponse
    /\ booked = EmptyBag

\* Scheduling over several days: the three scheduling handlers, and midnight.
NextCalendar ==
    \/ \E c \in Clients :
          \/ load_logged_in_user(c)
          \/ \E date_str \in CalendarDateInputs, slot \in SlotInputs :
                doctor_availability_view(c, date_str, slot[1], slot[2])
          \/ \E doctor_id \in DoctorIdInputs, date_str \in CalendarDateInputs,
                time \in TimeInputs :
                patient_book_appointment(c, doctor_id, date_str, time)
          \/ \E doctor_id \in DoctorIdInputs, date_str \in CalendarDateInputs :
                api_get_availability(c, doctor_id, date_str)
    \/ midnight

SpecCalendar == InitCalendar /\ [][NextCalendar]_vars

\* ------------------------------------------------------------- properties
TodayStr == strftime(today)

\* The ids a users row may have within the bounds.
UserIds == 1..(Cardinality(MoreUsernames))

\* This step ends the request of client c.
Answered(c) == pc[c] = "view" /\ pc'[c] = "idle"

\* The booking request of client c gets as far as create_appointment.
BookingReachesInsert(c, date_str) ==
    login_required(c, "Patient") = "" /\ date_str # << >> /\ ~IsPastDate(date_str)

\* C1: once an appointment holds (doctor, date, time), create_appointment for
\* the same (doctor, date, time) returns False for every patient, and a booking
\* request for it leaves the appointments as they are, reports no success and,
\* when it reaches create_appointment, reports the booking failure.
C1_DuplicateBookingFails ==
    [][ \A c \in { x \in Clients : Answered(x) }, a \in BagToSet(appointments) :
          patient_book_appointment(c, a.doctor_id, a.date, a.time)
          => /\ \A p \in UserIds :
                  create_appointment(p, a.doctor_id, a.date, a.time)
                      = [ ok |-> FALSE, rows |-> appointments ]
             /\ appointments' = appointments
             /\ response'.status # FlashBooked
             /\ BookingReachesInsert(c, a.date) => response'.status = FlashBookingFailed
      ]_vars

\* A booking has just been refused, which only a taken (doctor, date, time) does.
C1_Witness ==
    /\ response.status = FlashBookingFailed
    /\ BagCardinality(appointments) >= 1

\* C2 (as claimed): every appointment matches a declared availability slot of
\* its doctor and date whose start_time is the appointment's time.
C2_AppointmentsMatchSlots ==
    \A a \in BagToSet(appointments) :
        \E s \in BagToSet(doctor_availability) :
            s.doctor_id = a.doctor_id /\ s.date = a.date /\ s.start_time = a.time

\* The start times a doctor has declared on a date.
DeclaredTimes(doctor_id, date_str) ==
    { s.start_time : s \in { x \in BagToSet(doctor_availability) :
                                 x.doctor_id = doctor_id /\ x.date = date_str } }

\* The times of the doctor's 'Booked' appointments on a date.
BookedTimes(doctor_id, date_str) ==
    { a.time : a \in { x \in BagToSet(appointments) :
                           x.doctor_id = doctor_id /\ x.date = date_str
                           /\ x.status = "Booked" } }

\* C3: for every doctor and date, get_doctor_availability_by_date returns
\* exactly the declared start times that no Booked appointment of that doctor
\* and date holds, each once.
C3_OpenSlotsExact ==
    \A d \in UserIds, dt \in DateInputs :
        LET slots == get_doctor_availability_by_date(d, dt)
        IN /\ Range(slots) = DeclaredTimes(d, dt) \ BookedTimes(d, dt)
           /\ Len(slots) = Cardinality(Range(slots))

\* The endpoint has just answered "10:00" alone for doctor 2 today, who has
\* declared 09:00 and 10:00 and is booked at 09:00.
C3_Witness ==
    /\ response = Respond("slots", << "10:00" >>)
    /\ DeclaredTimes(2, TodayStr) = { "09:00", "10:00" }
    /\ BookedTimes(2, TodayStr) = { "09:00" }
    /\ get_doctor_availability_by_date(2, TodayStr) = << "10:00" >>

\* C4: an open-slots query for (doctor, date) never answers a time whose
\* booking for (doctor, date) has reported success before, whatever happened
\* in between.
C4_BookedTimeOmitted ==
    [][ \A c \in { x \in Clients : Answered(x) }, d \in DoctorIdInputs,
           dt \in DateInputs :
          (response'.status = "slots" /\ api_get_availability(c, d, dt))
          => \A k \in BagToSet(booked) :
                 (k[1] = d /\ k[2] = dt) => k[3] \notin Range(response'.body)
      ]_vars

\* The endpoint has just answered "09:00" alone for doctor 2 today, whose
\* declared 10:00 was booked with success.
C4_Witness ==
    /\ response = Respond("slots", << "09:00" >>)
    /\ DeclaredTimes(2, TodayStr) = { "09:00", "10:00" }
    /\ BagIn(<< 2, TodayStr, "10:00" >>, booked)

\* The string parses as a date, and the day it denotes is before today.
DenotesPastDay(date_str) ==
    strptime(date_str) # ValueError /\ DayBefore(strptime(date_str), today)

\* C5 (as claimed): a booking request whose date denotes a day before today
\* creates no appointment and reports no success.
C5_PastBookingRejected ==
    [][ \A c \in { x \in Clients : Answered(x) }, d \in DoctorIdInputs,
           dt \in { x \in DateInputs : DenotesPastDay(x) }, t \in TimeInputs :
          patient_book_appointment(c, d, dt, t)
          => appointments' = appointments /\ response'.status # FlashBooked
      ]_vars

\* C6 (as claimed): an availability request whose date passes strptime and
\* denotes a day before today creates no slot and reports no success.
C6_PastAvailabilityRejected ==
    [][ \A c \in { x \in Clients : Answered(x) },
           dt \in { x \in DateInputs : DenotesPastDay(x) }, slot \in SlotInputs :
          doctor_availability_view(c, dt, slot[1], slot[2])
          => doctor_availability' = doctor_availability
             /\ response'.status # FlashSlotSet
      ]_vars

\* No two appointment rows share (doctor, date, time), and no (doctor, date,
\* time) has had success reported twice.
OneBookingPerKey ==
    /\ \A a \in BagToSet(appointments) :
         /\ CopiesIn(a, appointments) = 1
         /\ \A b \in BagToSet(appointments) :
              (a.doctor_id = b.doctor_id /\ a.date = b.date /\ a.time = b.time)
              => a = b
    /\ \A k \in BagToSet(booked) : CopiesIn(k, booked) = 1

\* C7: however booking requests overlap, no (doctor, date, time) is reported
\* booked twice or held by two rows, and a request that reaches
\* create_appointment for a held (doctor, date, time) while another request
\* is in progress reports failure.
C7_ConcurrentBookings ==
    [][ /\ OneBookingPerKey'
        /\ \A c \in { x \in Clients : Answered(x) }, a \in BagToSet(appointments) :
             ( /\ \E o \in Clients \ { c } : pc[o] = "view"
               /\ BookingReachesInsert(c, a.date)
               /\ patient_book_appointment(c, a.doctor_id, a.date, a.time) )
             => response'.status = FlashBookingFailed /\ booked' = booked
      ]_vars

\* One patient's booking has just succeeded while the request of another
\* browser of a patient, begun before that, is still in progress.
C7_Witness ==
    /\ response.status = FlashBooked
    /\ \E c \in Clients : pc[c] = "view" /\ g_user[c].role = "Patient"

\* No two availability rows share (doctor, date, start_time).
OneSlotPerKey ==
    \A s \in BagToSet(doctor_availability) :
        /\ CopiesIn(s, doctor_availability) = 1
        /\ \A r \in BagToSet(doctor_availability) :
             (s.doctor_id = r.doctor_id /\ s.date = r.date
                /\ s.start_time = r.start_time) => s = r

\* The availability request of client c gets as far as set_doctor_availability.
SlotReachesInsert(c, date_str) ==
    /\ login_required(c, "Doctor") = ""
    /\ strptime(date_str) # ValueError
    /\ ~IsPastDate(date_str)

\* C8: there is at most one slot per (doctor, date, start_time);
\* set_doctor_availability for a key that a slot holds returns False whatever
\* the end_time, and the request of the slot's doctor that calls it leaves
\* every slot, end_time included, as it is and reports the duplicate.
C8_OneSlotPerKey ==
    [][ /\ OneSlotPerKey'
        /\ \A c \in { x \in Clients : Answered(x) },
              s \in BagToSet(doctor_availability), e \in EndTimeInputs :
             (s.doctor_id = g_user[c].id
                /\ response'.status \in { FlashSlotSet, FlashSlotExists }
                /\ doctor_availability_view(c, s.date, s.start_time, e))
             => /\ set_doctor_availability(s.doctor_id, s.date, s.start_time, e)
                    = [ ok |-> FALSE, rows |-> doctor_availability ]
                /\ doctor_availability' = doctor_availability
                /\ response'.status # FlashSlotSet
                /\ SlotReachesInsert(c, s.date) => response'.status = FlashSlotExists
      ]_vars

\* A slot request has just been refused as a duplicate, with both end times
\* of 09:00 submitted so far only one of which is stored.
C8_Witness ==
    /\ response.status = FlashSlotExists
    /\ \E s \in BagToSet(doctor_availability) : s.start_time = "09:00"

\* C9: no step removes an availability row or changes one, and no step
\* removes an appointment row or changes its patient, doctor, date or time.
C9_RowsPersist ==
    [][ /\ \A s \in BagToSet(doctor_availability) :
             CopiesIn(s, doctor_availability') >= CopiesIn(s, doctor_availability)
        /\ \A a \in BagToSet(appointments) :
             \E b \in BagToSet(appointments') :
                 /\ b.patient_id = a.patient_id /\ b.doctor_id = a.doctor_id
                 /\ b.date = a.date /\ b.time = a.time
                 /\ CopiesIn(b, appointments') >= CopiesIn(a, appointments)
      ]_vars

\* Both tables are as full as the bounds let them get: every row outlived the
\* requests that came after it.
C9_Witness ==
    /\ BagCardinality(doctor_availability) >= 2
    /\ BagCardinality(appointments) >= 2
    /\ response.status = FlashSlotExists

\* C10: create_user for a username that a row holds returns None for every
\* role and adds nothing, and a /register for it changes no users row, hands
\* out no id, leaves every session as it is and reports the failure.
C10_DuplicateUsername ==
    [][ \A c \in { x \in Clients : Answered(x) }, u \in users,
           p \in NewPasswords, n \in { "Ann" }, ci \in { "555" } :
          register(c, u.username, p, p, n, ci)
          => /\ \A role \in { "Patient", "Doctor" } :
                  create_user(u.username, p, n, ci, role)
                      = [ user_id |-> None, users |-> users, seq |-> sqlite_sequence ]
             /\ users' = users
             /\ sqlite_sequence' = sqlite_sequence
             /\ session' = session
             /\ response'.status = FlashRegisterFailed
      ]_vars

\* A registration has just failed in a browser that is logged in.
C10_Witness ==
    /\ response.status = FlashRegisterFailed
    /\ \E c \in Clients : session[c] # EmptySession /\ pc[c] = "idle"

\* The tables and the sessions: everything a request can leave behind.
stored == << users, doctors, doctor_availability, appointments, sqlite_sequence,
             session >>

\* The session of client c is that of an existing user with this role and id.
LoggedInAs(c, role, id) ==
    /\ session[c].user_id = id
    /\ \E u \in users : u.id = id /\ u.role = role

\* C11: a step that adds an availability row ends a request of a browser
\* logged in as a Doctor whose id is the row's doctor_id; a step that adds an
\* appointment row ends a request of a browser logged in as a Patient whose id
\* is the row's patient_id; and a request to /doctor/availability or
\* /patient/book that the decorator turns away (logged out, or another role)
\* leaves every table and session as it is.
C11_OnlyActorsCreate ==
    [][ /\ \A s \in BagToSet(doctor_availability') :
             CopiesIn(s, doctor_availability') > CopiesIn(s, doctor_availability)
             => \E c \in Clients : Answered(c) /\ LoggedInAs(c, "Doctor", s.doctor_id)
        /\ \A a \in BagToSet(appointments') :
             CopiesIn(a, appointments') > CopiesIn(a, appointments)
             => \E c \in Clients : Answered(c) /\ LoggedInAs(c, "Patient", a.patient_id)
        /\ \A c \in { x \in Clients : Answered(x) } :
             \/ stored' = stored
             \/ /\ (\E u \in users : LoggedInAs(c, "Doctor", u.id))
                    \/ \A dt \in DateInputs, slot \in SlotInputs :
                           ~doctor_availability_view(c, dt, slot[1], slot[2])
                /\ (\E u \in users : LoggedInAs(c, "Patient", u.id))
                    \/ \A d \in DoctorIdInputs, dt \in DateInputs, t \in TimeInputs :
                           ~patient_book_appointment(c, d, dt, t)
      ]_vars

\* A Doctor's slot and a Patient's appointment are stored, and a request has
\* just been turned away for its role.
C11_Witness ==
    /\ response.status = "Access denied."
    /\ \E s \in BagToSet(doctor_availability) : s.doctor_id = DoctorRow.id
    /\ \E a \in BagToSet(appointments) : a.patient_id = PatientRow.id

\* The users row with this id exists / the doctors row of this user exists.
HasUser(table, id) == \E u \in table : u.id = id

HasProfile(table, id) == \E d \in table : d.user_id = id

\* C12: the step that ends the second half of POST /admin/doctors leaves the
\* user row it created and that user's profile row both present or both
\* absent, the user row being a Doctor's; when no profile row was added the
\* user row is gone; a POST /admin/doctors that ends at its first half (turned
\* away, a field missing, or the username taken) adds no user and no profile;
\* and after every step each Doctor user without a profile is one whose
\* creation is still in progress, and each profile is a Doctor user's.
C12_UserAndProfileTogether ==
    [][ /\ \A c \in Clients :
             /\ (pc[c] = "profile" /\ pc'[c] = "idle")
                => LET id == doctor_user_id[c]
                   IN /\ HasUser(users', id) <=> HasProfile(doctors', id)
                      /\ \A u \in users' : u.id = id => u.role = "Doctor"
                      /\ doctors' = doctors => ~HasUser(users', id)
                      /\ \A sp \in 1..3 :
                           ~add_doctor_profile(id, sp).ok => ~HasUser(users', id)
             /\ (Answered(c) /\ manage_doctors(c, Usernames))
                => users' = users /\ doctors' = doctors
        /\ \A u \in users' :
             u.role = "Doctor"
             => \/ HasProfile(doctors', u.id)
                \/ \E c \in Clients : pc'[c] = "profile" /\ doctor_user_id'[c] = u.id
        /\ \A d \in doctors' :
             \E u \in users' : u.id = d.user_id /\ u.role = "Doctor"
      ]_vars

\* A doctor creation has ended with the user and the profile, and the one
\* after it has just ended at the taken username with neither.
C12_Witness ==
    /\ response.status = "Error: Username already exists or data is invalid."
    /\ \E u \in users : u.role = "Doctor" /\ HasProfile(doctors, u.id)
    /\ Cardinality(doctors) = Cardinality({ u \in users : u.role = "Doctor" })
    /\ \A c \in Clients : pc[c] = "idle"

\* What GET /api/doctor/<doctor_id>/availability/<date_str> answers as slots.
OpenSlotsAnswer(doctor_id, date_str) ==
    IF strptime(date_str) = ValueError THEN << >>
    ELSE IF DayBefore(strptime(date_str), today) THEN << >>
    ELSE get_doctor_availability_by_date(doctor_id, date_str)

\* The appointment that a booking of patient p creates.
BookedRow(p, doctor_id, date_str, time) ==
    [ patient_id |-> p, doctor_id |-> doctor_id, date |-> date_str, time |-> time,
      status |-> "Booked" ]

\* C13 (as claimed): when the open-slots endpoint answers time t for a doctor
\* and a date (which it does only for a date that is today or later), the
\* booking request of a logged-in patient for (doctor, date, t) made in that
\* state reports success and adds exactly one row, 'Booked', for that patient.
C13_OfferedSlotBookable ==
    [][ \A c \in { x \in Clients : Answered(x) }, d \in DoctorIdInputs,
           dt \in CalendarDateInputs \cup DateInputs, t \in TimeInputs :
          ( /\ login_required(c, "Patient") = ""
            /\ t \in Range(OpenSlotsAnswer(d, dt))
            /\ patient_book_appointment(c, d, dt, t) )
          => /\ response'.status = FlashBooked
             /\ appointments' = Insert(appointments, BookedRow(g_user[c].id, d, dt, t))
      ]_vars

\* C14 (as claimed): the doctor_id of every appointment is the id of a users
\* row whose role is Doctor and which has a doctors row.
C14_AppointmentDoctorIsDoctor ==
    \A a \in BagToSet(appointments) :
        /\ \E u \in users : u.id = a.doctor_id /\ u.role = "Doctor"
        /\ HasProfile(doctors, a.doctor_id)

\* The rows of users that this step adds.
NewUsers == { u \in users' : ~HasUser(users, u.id) }

\* C15: every users row a step adds is a Patient's, or is a Doctor's and the
\* step is the first half of a POST /admin/doctors of a browser logged in as
\* an Admin (so no step adds an Admin, and none of a logged-out browser, a
\* Patient or a Doctor adds a Doctor); and the rows a /register adds are
\* Patients' whatever its fields hold and whoever is logged in.
C15_RolesOfNewUsers ==
    [][ /\ \A u \in NewUsers :
             \/ u.role = "Patient"
             \/ /\ u.role = "Doctor"
                /\ \E c \in Clients :
                     /\ pc[c] = "view" /\ pc'[c] = "profile"
                     /\ doctor_user_id'[c] = u.id
                     /\ LoggedInAs(c, "Admin", session[c].user_id)
        /\ \A c \in { x \in Clients : Answered(x) } :
             \/ \A u \in NewUsers : u.role = "Patient"
             \/ \A username \in Usernames, password \in NewPasswords,
                   confirm_password \in Passwords, name \in { "Ann" },
                   contact_info \in { "555" } :
                    ~register(c, username, password, confirm_password, name,
                              contact_info)
      ]_vars

\* A Patient has registered, the Admin has added a Doctor, and a POST
\* /admin/doctors of a browser that is not the Admin's has just been turned
\* away.
C15_Witness ==
    /\ response.status = "Access denied."
    /\ \E u \in users : u.role = "Patient"
    /\ \E u \in users : u.role = "Doctor"

====
